---- MODULE Spec2Model ----
(***************************************************************************)
(* Per-document FAISS index lifecycle of doc-query-engine:                 *)
(*   src/src/service/document_qa_service.py  (index store, metadata, QA)   *)
(*   src/src/service/scheduler_service.py    (the eviction job)            *)
(*   src/src/api/database_events.py          (startup)                     *)
(*                                                                         *)
(* Threads.  The QA endpoint and generate_answer_by_id are coroutines of   *)
(* the one asyncio event loop: they give up the loop only at an await, and *)
(* load_faiss_index / FAISS.from_documents / save_faiss_index are plain    *)
(* synchronous calls.  cleanup_job is a plain function, which an           *)
(* AsyncIOScheduler runs in the loop's default thread pool, so a sweep is  *)
(* a second thread whose file accesses interleave with the loop's.         *)
(***************************************************************************)
EXTENDS Integers, Sequences, FiniteSets, TLC

\* ------------------------------------------------------------------ bounds
Docs == {"d1", "d2"}
\* the QA requests in flight together
NumRequests == 2
Requests == 1 .. NumRequests
\* the wall clock runs from 0 to MaxTime, in units of 1/UnitsPerHour hour
MaxTime == 4
UnitsPerHour == 2
\* FAISS.from_documents calls the model explores
MaxBuilds == 2
\* the sentences of a document
MaxSentences == 4

\* ------------------------------------------------------- program constants
INACTIVITY_THRESHOLD_HOURS == 1
INDEX_CLEANUP_JOB_INTERVAL_HOURS == 1
\* the literal of line 75
MaxChunkChars == 1600

VARIABLES
    now,              \* datetime.now()
    dir_exists,       \* INDEX_DIR exists
    index_files,      \* INDEX_DIR/<id>.faiss: the saved folder, or NoFile
    metadata_exists,  \* METADATA_FILE exists
    metadata_file,    \* its JSON content: id -> {"last_access": iso string}
    metadata_truncated, \* it is open for writing: truncated, the JSON not yet dumped
    build_count,      \* FAISS.from_documents calls so far
    \* per caller, its call of save_faiss_index / load_faiss_index
    op_pc, op_doc, op_index, op_metadata, op_result,
    \* the thread running clean_old_indexes
    sweep_pc, sweep_now, sweep_metadata, sweep_updated, sweep_result,
    sweep_error,      \* the exception that ended the last call, if one did
    \* the document table and the QA requests
    documents, req_pc, req_doc, req_index, req_answer,
    load_calls, build_calls, save_calls,
    req_calls,        \* per request, its calls of lines 88, 90 and 93 so far
    \* the application and its scheduler
    app_pc, scheduler_running, scheduler_jobs, scheduler_wakeup,
    job_instances, job_runs,
    \* the request of ask_question: its question, and the HTTPException raised
    req_question, req_error,
    \* the chunking loop of generate_answer_by_id, lines 71-81
    sentences,        \* the stripped sentences of doc.content
    sentence_i,       \* the position of the for loop in them
    chunks, chunk, length,
    chunk_pc

storeVars == <<dir_exists, index_files, metadata_exists, metadata_file,
               metadata_truncated>>
opVars    == <<op_pc, op_doc, op_index, op_metadata, op_result>>
sweepVars == <<sweep_pc, sweep_now, sweep_metadata, sweep_updated, sweep_result,
               sweep_error>>
qaVars    == <<documents, req_pc, req_doc, req_index, req_answer,
               load_calls, build_calls, save_calls, req_calls>>
schedVars == <<app_pc, scheduler_running, scheduler_jobs, scheduler_wakeup,
               job_instances, job_runs>>
endpointVars == <<req_question, req_error>>
chunkVars == <<sentences, sentence_i, chunks, chunk, length, chunk_pc>>
vars == <<now, build_count, storeVars, opVars, sweepVars, qaVars, schedVars,
          endpointVars, chunkVars>>

\* ------------------------------------------------------------ pure helpers
\* the callers of the store API: a direct caller, and each QA request
Caller == 0
Callers == Requests \cup {Caller}
NoDoc == "none"
NoQuestion == "none"
\* no HTTPException
NoError == [status_code |-> 0, detail |-> [message |-> ""]]
NoIndex == [doc |-> NoDoc, build |-> 0]
EmptyMap == [x \in {} |-> [last_access |-> <<0, 0>>]]
None == -1

\* metadata[document_id] = info
Put(m, d, info) == [x \in (DOMAIN m) \cup {d} |-> IF x = d THEN info ELSE m[x]]
Restrict(m, S) == [x \in S |-> m[x]]

\* datetime.isoformat(): the text "<hours>:<rest>" of a time, as the pair of its fields
isoformat(t) == <<t \div UnitsPerHour, t % UnitsPerHour>>
\* datetime.fromisoformat(): the time of such a text
fromisoformat(s) == s[1] * UnitsPerHour + s[2]
\* timedelta(hours=h)
timedelta(h) == h * UnitsPerHour

\* the test of clean_old_indexes: now - last_access > timedelta(hours=THRESHOLD)
IsOld(t, info) ==
    t - fromisoformat(info.last_access) > timedelta(INACTIVITY_THRESHOLD_HOURS)

\* ------------------------------------------------------- files and metadata
\* no folder at index_path
NoFile == [faiss |-> 0, pkl |-> NoDoc]
\* vectorstore.save_local(index_path): the folder's index.faiss holds the vectors
\* of the index, its index.pkl the pickled docstore of the document's chunks
save_local(idx) == [faiss |-> idx.build, pkl |-> idx.doc]
\* save_local writes the two files one after the other, index.faiss first: the
\* folder f once faiss.write_index has written the vectors of idx
write_index(f, idx) == [f EXCEPT !.faiss = idx.build]
\* FAISS.load_local(index_path, ...): the vectorstore of the two files
load_local(f) == [doc |-> f.pkl, build |-> f.faiss]
\* FAISS.load_local raises when the folder, its index.faiss or its index.pkl is
\* missing: there is nothing to deserialize
load_local_raises(f) == f.faiss = 0 \/ f.pkl = NoDoc

\* index_path.exists()
path_exists(d) == index_files[d] # NoFile

\* load_metadata(): the JSON of METADATA_FILE, {} when there is no file
load_metadata == IF metadata_exists THEN metadata_file ELSE EmptyMap
\* json.load raises JSONDecodeError on a file another thread has opened for
\* writing and not yet written: its text is empty
load_metadata_raises == metadata_exists /\ metadata_truncated

\* open(METADATA_FILE, "w") raises FileNotFoundError when INDEX_DIR is missing
save_metadata_raises == ~dir_exists
\* save_metadata, line 140: open(METADATA_FILE, "w") creates or truncates the file
open_metadata ==
    /\ metadata_exists' = TRUE
    /\ metadata_file' = EmptyMap
    /\ metadata_truncated' = TRUE
\* save_metadata, line 141: json.dump(metadata, f) and the close of the file
save_metadata(m) ==
    /\ metadata_exists' = TRUE
    /\ metadata_file' = m
    /\ metadata_truncated' = FALSE

\* {"last_access": datetime.now().isoformat()}
Touched(m, d) == Put(m, d, [last_access |-> isoformat(now)])

\* as os_remove_raises, were index_path a plain file: os.remove removes it
os_remove_raises_File(d) == FALSE
\* os.remove(index_path).  index_path is what vectorstore.save_local(index_path)
\* made: FAISS.save_local(folder_path) creates folder_path as a DIRECTORY and
\* writes index.faiss and index.pkl into it.  os.remove of a directory raises
\* (IsADirectoryError on Linux, PermissionError elsewhere) and removes nothing.
os_remove_raises(d) == path_exists(d)

\* -------------------------------------------------------------------- time
Tick ==
    /\ now < MaxTime
    /\ now' = now + 1
    /\ UNCHANGED <<build_count, storeVars, opVars, sweepVars, qaVars, schedVars>>
    /\ UNCHANGED <<endpointVars, chunkVars>>

\* --------------------------------------------- save_faiss_index, step by step
\* lines 107-109: INDEX_DIR.mkdir(parents=True, exist_ok=True), and the first
\* half of save_local(index_path): the folder is made and index.faiss written
SaveFile(c) ==
    /\ op_pc[c] = "save_file"
    /\ dir_exists' = TRUE
    /\ index_files' = [index_files EXCEPT ![op_doc[c]] = write_index(@, op_index[c])]
    /\ op_pc' = [op_pc EXCEPT ![c] = "save_pkl"]
    /\ UNCHANGED <<now, build_count, metadata_exists, metadata_file, metadata_truncated,
                   op_doc, op_index, op_metadata, op_result, sweepVars, qaVars, schedVars>>
    /\ UNCHANGED <<endpointVars, chunkVars>>

\* line 109, the second half of save_local: index.pkl is written
SavePkl(c) ==
    /\ op_pc[c] = "save_pkl"
    /\ index_files' = [index_files EXCEPT ![op_doc[c]] = save_local(op_index[c])]
    /\ op_pc' = [op_pc EXCEPT ![c] = "save_read"]
    /\ UNCHANGED <<now, build_count, dir_exists, metadata_exists, metadata_file,
                   metadata_truncated, op_doc, op_index, op_metadata, op_result,
                   sweepVars, qaVars, schedVars>>
    /\ UNCHANGED <<endpointVars, chunkVars>>

\* line 109: the write of index.pkl fails (the disk is full, the docstore does not
\* pickle): save_local raises, save_faiss_index with it, and the folder is left
\* with what was written
SavePklRaised(c) ==
    /\ op_pc[c] = "save_pkl"
    /\ op_pc' = [op_pc EXCEPT ![c] = "raised"]
    /\ UNCHANGED <<now, build_count, storeVars, op_doc, op_index, op_metadata, op_result,
                   sweepVars, qaVars, schedVars>>
    /\ UNCHANGED <<endpointVars, chunkVars>>

\* line 111: metadata = load_metadata()
SaveReadMeta(c) ==
    /\ op_pc[c] = "save_read"
    /\ IF load_metadata_raises
       THEN /\ op_pc' = [op_pc EXCEPT ![c] = "raised"]
            /\ UNCHANGED op_metadata
       ELSE /\ op_metadata' = [op_metadata EXCEPT ![c] = load_metadata]
            /\ op_pc' = [op_pc EXCEPT ![c] = "save_open"]
    /\ UNCHANGED <<now, build_count, storeVars, op_doc, op_index, op_result,
                   sweepVars, qaVars, schedVars>>
    /\ UNCHANGED <<endpointVars, chunkVars>>

\* lines 112-113: metadata[document_id] = {...now...}; save_metadata(metadata)
\* opens the file for writing (line 140)
SaveOpenMeta(c) ==
    /\ op_pc[c] = "save_open"
    /\ op_metadata' = [op_metadata EXCEPT ![c] = Touched(@, op_doc[c])]
    /\ open_metadata
    /\ op_pc' = [op_pc EXCEPT ![c] = "save_write"]
    /\ UNCHANGED <<now, build_count, dir_exists, index_files, op_doc, op_index,
                   op_result, sweepVars, qaVars, schedVars>>
    /\ UNCHANGED <<endpointVars, chunkVars>>

\* save_faiss_index returning without the write of line 113
SaveWriteMeta_NoWrite(c) ==
    /\ op_pc[c] = "save_write"
    /\ op_pc' = [op_pc EXCEPT ![c] = "returned"]
    /\ op_metadata' = [op_metadata EXCEPT ![c] = EmptyMap]
    /\ UNCHANGED <<now, build_count, storeVars, op_doc, op_index, op_result,
                   sweepVars, qaVars, schedVars>>
    /\ UNCHANGED <<endpointVars, chunkVars>>

\* line 113: save_metadata dumps the map (line 141) and save_faiss_index returns
SaveWriteMeta(c) ==
    /\ op_pc[c] = "save_write"
    /\ save_metadata(op_metadata[c])
    /\ op_pc' = [op_pc EXCEPT ![c] = "returned"]
    /\ op_metadata' = [op_metadata EXCEPT ![c] = EmptyMap]
    /\ UNCHANGED <<now, build_count, dir_exists, index_files, op_doc, op_index, op_result,
                   sweepVars, qaVars, schedVars>>
    /\ UNCHANGED <<endpointVars, chunkVars>>

\* --------------------------------------------- load_faiss_index, step by step
\* as LoadExists, without the check of line 118
LoadExists_NoCheck(c) ==
    /\ op_pc[c] = "load_exists"
    /\ op_pc' = [op_pc EXCEPT ![c] = "load_read"]
    /\ UNCHANGED <<now, build_count, storeVars, op_doc, op_index, op_metadata,
                   op_result, sweepVars, qaVars, schedVars>>
    /\ UNCHANGED <<endpointVars, chunkVars>>

\* lines 117-119: if not index_path.exists(): return None
LoadExists(c) ==
    /\ op_pc[c] = "load_exists"
    /\ IF path_exists(op_doc[c])
       THEN op_pc' = [op_pc EXCEPT ![c] = "load_read"] /\ UNCHANGED op_result
       ELSE /\ op_pc' = [op_pc EXCEPT ![c] = "returned"]
            /\ op_result' = [op_result EXCEPT ![c] = NoIndex]
    /\ UNCHANGED <<now, build_count, storeVars, op_doc, op_index, op_metadata,
                   sweepVars, qaVars, schedVars>>
    /\ UNCHANGED <<endpointVars, chunkVars>>

\* line 121: metadata = load_metadata()
LoadReadMeta(c) ==
    /\ op_pc[c] = "load_read"
    /\ IF load_metadata_raises
       THEN /\ op_pc' = [op_pc EXCEPT ![c] = "raised"]
            /\ UNCHANGED op_metadata
       ELSE /\ op_metadata' = [op_metadata EXCEPT ![c] = load_metadata]
            /\ op_pc' = [op_pc EXCEPT ![c] = "load_open"]
    /\ UNCHANGED <<now, build_count, storeVars, op_doc, op_index, op_result,
                   sweepVars, qaVars, schedVars>>
    /\ UNCHANGED <<endpointVars, chunkVars>>

\* as LoadOpenMeta, without line 122: the map is written back as it was read
LoadOpenMeta_NoTouch(c) ==
    /\ op_pc[c] = "load_open"
    /\ open_metadata
    /\ op_pc' = [op_pc EXCEPT ![c] = "load_write"]
    /\ UNCHANGED <<now, build_count, dir_exists, index_files, op_doc, op_index,
                   op_metadata, op_result, sweepVars, qaVars, schedVars>>
    /\ UNCHANGED <<endpointVars, chunkVars>>

\* lines 122-123: metadata[document_id] = {...now...}; save_metadata(metadata)
\* opens the file for writing (line 140)
LoadOpenMeta(c) ==
    /\ op_pc[c] = "load_open"
    /\ op_metadata' = [op_metadata EXCEPT ![c] = Touched(@, op_doc[c])]
    /\ open_metadata
    /\ op_pc' = [op_pc EXCEPT ![c] = "load_write"]
    /\ UNCHANGED <<now, build_count, dir_exists, index_files, op_doc, op_index,
                   op_result, sweepVars, qaVars, schedVars>>
    /\ UNCHANGED <<endpointVars, chunkVars>>

\* line 123: save_metadata dumps the map (line 141)
LoadWriteMeta(c) ==
    /\ op_pc[c] = "load_write"
    /\ save_metadata(op_metadata[c])
    /\ op_pc' = [op_pc EXCEPT ![c] = "load_local"]
    /\ op_metadata' = [op_metadata EXCEPT ![c] = EmptyMap]
    /\ UNCHANGED <<now, build_count, dir_exists, index_files, op_doc, op_index, op_result,
                   sweepVars, qaVars, schedVars>>
    /\ UNCHANGED <<endpointVars, chunkVars>>

\* as LoadLocal, with the error of FAISS.load_local caught and None returned
LoadLocal_Swallow(c) ==
    /\ op_pc[c] = "load_local"
    /\ op_pc' = [op_pc EXCEPT ![c] = "returned"]
    /\ op_result' = [op_result EXCEPT ![c] =
            IF load_local_raises(index_files[op_doc[c]])
            THEN NoIndex ELSE load_local(index_files[op_doc[c]])]
    /\ UNCHANGED <<now, build_count, storeVars, op_doc, op_index, op_metadata,
                   sweepVars, qaVars, schedVars>>
    /\ UNCHANGED <<endpointVars, chunkVars>>

\* lines 125-129: return FAISS.load_local(index_path, ...); it raises when the
\* folder is gone or does not hold both files
LoadLocal(c) ==
    /\ op_pc[c] = "load_local"
    /\ IF load_local_raises(index_files[op_doc[c]])
       THEN /\ op_pc' = [op_pc EXCEPT ![c] = "raised"]
            /\ op_result' = [op_result EXCEPT ![c] = NoIndex]
       ELSE /\ op_pc' = [op_pc EXCEPT ![c] = "returned"]
            /\ op_result' = [op_result EXCEPT ![c] = load_local(index_files[op_doc[c]])]
    /\ UNCHANGED <<now, build_count, storeVars, op_doc, op_index, op_metadata,
                   sweepVars, qaVars, schedVars>>
    /\ UNCHANGED <<endpointVars, chunkVars>>

\* one step of a caller inside save_faiss_index or load_faiss_index
OpStep(c) ==
    \/ SaveFile(c)
    \/ SavePkl(c)
    \/ SaveReadMeta(c)
    \/ SaveOpenMeta(c)
    \/ SaveWriteMeta(c)
    \/ LoadExists(c)
    \/ LoadReadMeta(c)
    \/ LoadOpenMeta(c)
    \/ LoadWriteMeta(c)
    \/ LoadLocal(c)

\* the caller is in neither function
OpIdle(c) == op_pc[c] \in {"idle", "returned", "raised"}

\* the call save_faiss_index(vectorstore, document_id) by caller c
CallSave(c, d, idx) ==
    /\ op_pc' = [op_pc EXCEPT ![c] = "save_file"]
    /\ op_doc' = [op_doc EXCEPT ![c] = d]
    /\ op_index' = [op_index EXCEPT ![c] = idx]
    /\ op_metadata' = [op_metadata EXCEPT ![c] = EmptyMap]
    /\ op_result' = [op_result EXCEPT ![c] = NoIndex]

\* the call load_faiss_index(document_id) by caller c
CallLoad(c, d) ==
    /\ op_pc' = [op_pc EXCEPT ![c] = "load_exists"]
    /\ op_doc' = [op_doc EXCEPT ![c] = d]
    /\ op_index' = [op_index EXCEPT ![c] = NoIndex]
    /\ op_metadata' = [op_metadata EXCEPT ![c] = EmptyMap]
    /\ op_result' = [op_result EXCEPT ![c] = NoIndex]

\* -------------------------------------------- clean_old_indexes, step by step
SweepIdle == sweep_pc \in {"idle", "returned", "raised"}

\* a call of clean_old_indexes(); line 145: now = datetime.now()
SweepCall ==
    /\ SweepIdle
    /\ sweep_pc' = "read"
    /\ sweep_now' = now
    /\ sweep_metadata' = EmptyMap
    /\ sweep_updated' = EmptyMap
    /\ sweep_result' = EmptyMap
    /\ sweep_error' = "none"
    /\ UNCHANGED <<now, build_count, storeVars, opVars, qaVars, schedVars>>
    /\ UNCHANGED <<endpointVars, chunkVars>>

\* as SweepReadMeta, with the error of load_metadata caught and {} used instead
SweepReadMeta_Swallow ==
    /\ sweep_pc = "read"
    /\ sweep_metadata' = IF load_metadata_raises THEN EmptyMap ELSE load_metadata
    /\ sweep_pc' = "remove"
    /\ UNCHANGED <<now, build_count, storeVars, opVars, sweep_now, sweep_updated,
                   sweep_result, sweep_error, qaVars, schedVars>>
    /\ UNCHANGED <<endpointVars, chunkVars>>

\* line 146: metadata = load_metadata()
SweepReadMeta ==
    /\ sweep_pc = "read"
    /\ IF load_metadata_raises
       THEN /\ sweep_pc' = "raised"
            /\ sweep_error' = "JSONDecodeError"
            /\ sweep_now' = 0
            /\ UNCHANGED sweep_metadata
       ELSE /\ sweep_metadata' = load_metadata
            /\ sweep_pc' = "remove"
            /\ UNCHANGED <<sweep_now, sweep_error>>
    /\ UNCHANGED <<now, build_count, storeVars, opVars, sweep_updated,
                   sweep_result, qaVars, schedVars>>
    /\ UNCHANGED <<endpointVars, chunkVars>>

\* the entries the loop of lines 149-156 does not copy to updated_metadata
SweepOld(t, m) == {d \in DOMAIN m : IsOld(t, m[d])}

\* lines 149-156, the whole loop: every old entry whose index_path exists goes to
\* os.remove, the others are copied to updated_metadata.  os.remove raises on the
\* first of them (see os_remove_raises) and has removed nothing; an old entry with
\* no index_path is dropped without a call.
SweepRemove ==
    /\ sweep_pc = "remove"
    /\ LET old == SweepOld(sweep_now, sweep_metadata)
       IN  IF \E d \in old : path_exists(d) /\ os_remove_raises(d)
           THEN /\ sweep_pc' = "raised"
                /\ sweep_error' = "IsADirectoryError"
                /\ sweep_now' = 0
                /\ sweep_metadata' = EmptyMap
                /\ UNCHANGED sweep_updated
           ELSE /\ sweep_pc' = "write"
                /\ sweep_updated' = Restrict(sweep_metadata, (DOMAIN sweep_metadata) \ old)
                /\ UNCHANGED <<sweep_now, sweep_metadata, sweep_error>>
    /\ index_files' = [d \in Docs |->
            IF /\ d \in SweepOld(sweep_now, sweep_metadata)
               /\ path_exists(d)
               /\ ~os_remove_raises(d)
            THEN NoFile ELSE index_files[d]]
    /\ UNCHANGED <<now, build_count, dir_exists, metadata_exists, metadata_file,
                   metadata_truncated, opVars, sweep_result, qaVars, schedVars>>
    /\ UNCHANGED <<endpointVars, chunkVars>>

\* line 158, save_metadata line 140: the file is opened for writing, which raises
\* when there is no INDEX_DIR
SweepOpenMeta ==
    /\ sweep_pc = "write"
    /\ IF save_metadata_raises
       THEN /\ sweep_pc' = "raised"
            /\ sweep_error' = "FileNotFoundError"
            /\ sweep_now' = 0
            /\ sweep_metadata' = EmptyMap
            /\ sweep_updated' = EmptyMap
            /\ UNCHANGED <<metadata_exists, metadata_file, metadata_truncated>>
       ELSE /\ open_metadata
            /\ sweep_pc' = "dump"
            /\ UNCHANGED <<sweep_now, sweep_metadata, sweep_updated, sweep_error>>
    /\ UNCHANGED <<now, build_count, dir_exists, index_files, opVars, sweep_result,
                   qaVars, schedVars>>
    /\ UNCHANGED <<endpointVars, chunkVars>>

\* as SweepWriteMeta, returning the entries the loop dropped
SweepWriteMeta_ReturnsEvicted ==
    /\ sweep_pc = "dump"
    /\ save_metadata(sweep_updated)
    /\ sweep_pc' = "returned"
    /\ sweep_result' = Restrict(sweep_metadata,
                                (DOMAIN sweep_metadata) \ (DOMAIN sweep_updated))
    /\ sweep_now' = 0
    /\ sweep_metadata' = EmptyMap
    /\ sweep_updated' = EmptyMap
    /\ UNCHANGED <<now, build_count, dir_exists, index_files, opVars, qaVars, schedVars,
                   sweep_error>>
    /\ UNCHANGED <<endpointVars, chunkVars>>

\* lines 158-159: save_metadata(updated_metadata) dumps it; return updated_metadata
SweepWriteMeta ==
    /\ sweep_pc = "dump"
    /\ save_metadata(sweep_updated)
    /\ sweep_pc' = "returned"
    /\ sweep_result' = sweep_updated
    /\ sweep_now' = 0
    /\ sweep_metadata' = EmptyMap
    /\ sweep_updated' = EmptyMap
    /\ UNCHANGED <<now, build_count, dir_exists, index_files, opVars, qaVars, schedVars,
                   sweep_error>>
    /\ UNCHANGED <<endpointVars, chunkVars>>

SweepStep ==
    \/ SweepReadMeta
    \/ SweepRemove
    \/ SweepOpenMeta
    \/ SweepWriteMeta

\* ----------------------------------------------- direct calls of the store API
\* save_faiss_index(vectorstore, document_id) with a newly built vectorstore
SaveCall(d) ==
    /\ OpIdle(Caller)
    /\ build_count < MaxBuilds
    /\ build_count' = build_count + 1
    /\ CallSave(Caller, d, [doc |-> d, build |-> build_count + 1])
    /\ UNCHANGED <<now, storeVars, sweepVars, qaVars, schedVars>>
    /\ UNCHANGED <<endpointVars, chunkVars>>

\* load_faiss_index(document_id)
LoadCall(d) ==
    /\ OpIdle(Caller)
    /\ CallLoad(Caller, d)
    /\ UNCHANGED <<now, build_count, storeVars, sweepVars, qaVars, schedVars>>
    /\ UNCHANGED <<endpointVars, chunkVars>>

\* ------------------------------------------------------------ initial state
InitService ==
    /\ now = 0
    /\ dir_exists = FALSE
    /\ index_files = [d \in Docs |-> NoFile]
    /\ metadata_exists = FALSE
    /\ metadata_file = EmptyMap
    /\ metadata_truncated = FALSE
    /\ build_count = 0
    /\ op_pc = [c \in Callers |-> "idle"]
    /\ op_doc = [c \in Callers |-> NoDoc]
    /\ op_index = [c \in Callers |-> NoIndex]
    /\ op_metadata = [c \in Callers |-> EmptyMap]
    /\ op_result = [c \in Callers |-> NoIndex]
    /\ sweep_pc = "idle" /\ sweep_now = 0 /\ sweep_metadata = EmptyMap
    /\ sweep_updated = EmptyMap /\ sweep_result = EmptyMap /\ sweep_error = "none"
    /\ documents = {}
    /\ req_pc = [r \in Requests |-> "idle"]
    /\ req_doc = [r \in Requests |-> NoDoc]
    /\ req_index = [r \in Requests |-> NoIndex]
    /\ req_answer = [r \in Requests |-> [text |-> "", id |-> NoDoc]]
    /\ load_calls = [d \in Docs |-> 0]
    /\ build_calls = [d \in Docs |-> 0]
    /\ save_calls = [d \in Docs |-> 0]
    /\ req_calls = [r \in Requests |-> [load |-> 0, build |-> 0, save |-> 0]]
    /\ app_pc = "created"
    /\ scheduler_running = FALSE
    /\ scheduler_jobs = {}
    /\ scheduler_wakeup = None
    /\ job_instances = 0
    /\ job_runs = 0
    /\ req_question = [r \in Requests |-> NoQuestion]
    /\ req_error = [r \in Requests |-> NoError]

\* the service before any call; no document is being chunked
Init ==
    /\ InitService
    /\ sentences = <<>> /\ sentence_i = 0
    /\ chunks = <<>> /\ chunk = <<>> /\ length = 0
    /\ chunk_pc = "idle"

\* ---------------------------------------------------------------------------
\* SpecSeq: complete, non-interleaved calls of save_faiss_index, load_faiss_index
\* and clean_old_indexes: a call starts only when no other call is in progress.
SeqSaveCall == \E d \in Docs : SweepIdle /\ SaveCall(d)
SeqLoadCall == \E d \in Docs : SweepIdle /\ LoadCall(d)
SeqSweepCall == OpIdle(Caller) /\ SweepCall
SeqTick == OpIdle(Caller) /\ SweepIdle /\ Tick
CallerStep == OpStep(Caller)

NextSeq ==
    \/ SeqSaveCall
    \/ SeqLoadCall
    \/ SeqSweepCall
    \/ SeqTick
    \/ CallerStep
    \/ SweepStep

SpecSeq == Init /\ [][NextSeq]_vars

\* SpecConc: one clean_old_indexes thread interleaved, step by step, with the
\* request path's save_faiss_index and load_faiss_index calls.
ConcSaveCall == \E d \in Docs : SaveCall(d)
ConcLoadCall == \E d \in Docs : LoadCall(d)

NextConc ==
    \/ ConcSaveCall
    \/ ConcLoadCall
    \/ SweepCall
    \/ Tick
    \/ CallerStep
    \/ SweepStep

SpecConc == Init /\ [][NextConc]_vars

\* SpecSweeps: SpecConc with the scheduling the eviction claims assume: time
\* advances, clean_old_indexes keeps being called, and a started call or sweep
\* runs on to its end.
SpecSweeps ==
    /\ Init
    /\ [][NextConc]_vars
    /\ WF_vars(Tick)
    /\ WF_vars(SweepCall)
    /\ WF_vars(SweepStep)
    /\ WF_vars(CallerStep)

\* ---------------------------------------------------------------------------
\* The application: startup, the scheduler, document ingestion and QA requests.

\* startup(): create_tables(), then add_scheduler_job():
\* scheduler.add_job(cleanup_job, "interval", hours=..., next_run_time=None) and,
\* the scheduler not running yet, scheduler.start().  APScheduler adds a job
\* given next_run_time=None PAUSED: it has no next run time until it is resumed.
\* An interval trigger's first fire time would be its start date plus the interval.
Startup ==
    /\ app_pc = "created"
    /\ app_pc' = "serving"
    /\ scheduler_jobs' = scheduler_jobs \cup
            {[func |-> "cleanup_job",
              first_fire |-> now + timedelta(INDEX_CLEANUP_JOB_INTERVAL_HOURS),
              next_run_time |-> None]}
    /\ IF ~scheduler_running
       THEN scheduler_running' = TRUE /\ scheduler_wakeup' = now
       ELSE UNCHANGED <<scheduler_running, scheduler_wakeup>>
    /\ UNCHANGED <<now, build_count, storeVars, opVars, sweepVars, qaVars,
                   job_instances, job_runs>>
    /\ UNCHANGED <<endpointVars, chunkVars>>

\* the jobs the scheduler finds due: a paused job (next_run_time None) never is
DueJobs == {j \in scheduler_jobs : j.next_run_time # None /\ j.next_run_time <= now}
\* the job after a wakeup that found it due: the next fire time of its trigger
Rescheduled(j) ==
    IF j \in DueJobs
    THEN [j EXCEPT !.next_run_time = @ + timedelta(INDEX_CLEANUP_JOB_INTERVAL_HOURS)]
    ELSE j
\* the earliest next run time among the jobs that have one, else None
NextWakeup(jobs) ==
    LET times == {j.next_run_time : j \in {k \in jobs : k.next_run_time # None}}
    IN  IF times = {} THEN None ELSE CHOOSE t \in times : \A u \in times : t <= u

\* a wakeup of scheduler = AsyncIOScheduler(): each due job is submitted to the
\* executor, which runs cleanup_job in a pool thread, unless max_instances (1, the
\* default of add_job) instances of it are running, and then that run is skipped;
\* the scheduler then sleeps until the earliest next run time, if there is one.
ProcessJobs ==
    /\ scheduler_running
    /\ scheduler_wakeup # None
    /\ scheduler_wakeup <= now
    /\ scheduler_jobs' = {Rescheduled(j) : j \in scheduler_jobs}
    /\ scheduler_wakeup' = NextWakeup({Rescheduled(j) : j \in scheduler_jobs})
    /\ IF DueJobs # {} /\ job_instances < 1
       THEN /\ job_instances' = job_instances + 1
            /\ job_runs' = job_runs + 1
            /\ sweep_pc' = "read"
            /\ sweep_now' = now
            /\ UNCHANGED <<sweep_metadata, sweep_updated, sweep_result, sweep_error>>
       ELSE UNCHANGED <<job_instances, job_runs, sweepVars>>
    /\ UNCHANGED <<now, build_count, storeVars, opVars, qaVars, app_pc,
                   scheduler_running>>
    /\ UNCHANGED <<endpointVars, chunkVars>>

\* EmbeddingsService.embed_and_store_document: a new row of the documents table
Ingest(d) ==
    /\ app_pc = "serving"
    /\ d \notin documents
    /\ documents' = documents \cup {d}
    /\ UNCHANGED <<now, build_count, storeVars, opVars, sweepVars, req_pc, req_doc,
                   req_index, req_answer, load_calls, build_calls, save_calls, req_calls, schedVars>>
    /\ UNCHANGED <<endpointVars, chunkVars>>

\* f"No document found with id {document_id}"
NoDocumentFound(d) == [text |-> "No document found with id", id |-> d]
\* rag_chain.invoke(question) over the retriever of the index
Answer(d) == [text |-> "answer", id |-> d]

\* generate_answer_by_id(question, d) is called and reaches its one real await,
\* session.execute (line 63)
ReqArrive(r, d) ==
    /\ app_pc = "serving"
    /\ req_pc[r] = "idle"
    /\ req_pc' = [req_pc EXCEPT ![r] = "fetching"]
    /\ req_doc' = [req_doc EXCEPT ![r] = d]
    /\ UNCHANGED <<now, build_count, storeVars, opVars, sweepVars, documents,
                   req_index, req_answer, load_calls, build_calls, save_calls, req_calls, schedVars>>
    /\ req_question' = [req_question EXCEPT ![r] = "q"]
    /\ UNCHANGED <<req_error, chunkVars>>

\* as LoopFree, were the handlers run in threads of their own
LoopFree_Threads(r) == TRUE
\* lines 66-103 hold no await: the event loop runs them for one request at a time,
\* so request r resumes only when no other request is between those lines
LoopFree(r) == \A q \in Requests \ {r} : req_pc[q] \notin {"loading", "saving"}

\* as ReqFetched, with the check of line 67 left out
ReqFetched_NoCheck(r) ==
    /\ req_pc[r] = "fetching"
    /\ LoopFree(r)
    /\ req_pc' = [req_pc EXCEPT ![r] = "loading"]
    /\ load_calls' = [load_calls EXCEPT ![req_doc[r]] = @ + 1]
    /\ req_calls' = [req_calls EXCEPT ![r].load = @ + 1]
    /\ CallLoad(r, req_doc[r])
    /\ UNCHANGED <<req_answer, now, build_count, storeVars, sweepVars, documents,
                   req_doc, req_index, build_calls, save_calls, schedVars>>
    /\ UNCHANGED <<endpointVars, chunkVars>>

\* lines 66-88: the query returns; with no document the answer is returned at
\* once (line 68), else the content is chunked and load_faiss_index is called
ReqFetched(r) ==
    /\ req_pc[r] = "fetching"
    /\ LoopFree(r)
    /\ IF req_doc[r] \notin documents
       THEN /\ req_pc' = [req_pc EXCEPT ![r] = "done"]
            /\ req_answer' = [req_answer EXCEPT ![r] = NoDocumentFound(req_doc[r])]
            /\ UNCHANGED <<opVars, load_calls, req_calls>>
       ELSE /\ req_pc' = [req_pc EXCEPT ![r] = "loading"]
            /\ load_calls' = [load_calls EXCEPT ![req_doc[r]] = @ + 1]
            /\ req_calls' = [req_calls EXCEPT ![r].load = @ + 1]
            /\ CallLoad(r, req_doc[r])
            /\ UNCHANGED req_answer
    /\ UNCHANGED <<now, build_count, storeVars, sweepVars, documents, req_doc,
                   req_index, build_calls, save_calls, schedVars>>
    /\ UNCHANGED <<endpointVars, chunkVars>>

\* line 93 raised: the error of save_faiss_index leaves generate_answer_by_id
ReqSaveRaised(r) ==
    /\ req_pc[r] = "saving"
    /\ op_pc[r] = "raised"
    /\ req_pc' = [req_pc EXCEPT ![r] = "failed"]
    /\ UNCHANGED <<now, build_count, storeVars, opVars, sweepVars, documents, req_doc,
                   req_index, req_answer, load_calls, build_calls, save_calls, req_calls, schedVars>>
    /\ UNCHANGED <<endpointVars, chunkVars>>

\* line 88 raised: the error leaves generate_answer_by_id
ReqLoadRaised(r) ==
    /\ req_pc[r] = "loading"
    /\ op_pc[r] = "raised"
    /\ req_pc' = [req_pc EXCEPT ![r] = "failed"]
    /\ UNCHANGED <<now, build_count, storeVars, opVars, sweepVars, documents, req_doc,
                   req_index, req_answer, load_calls, build_calls, save_calls, req_calls, schedVars>>
    /\ UNCHANGED <<endpointVars, chunkVars>>

\* lines 88-89, 95-103: load_faiss_index returned an index, which answers
ReqLoaded(r) ==
    /\ req_pc[r] = "loading"
    /\ op_pc[r] = "returned"
    /\ op_result[r] # NoIndex
    /\ req_index' = [req_index EXCEPT ![r] = op_result[r]]
    /\ req_answer' = [req_answer EXCEPT ![r] = Answer(req_doc[r])]
    /\ req_pc' = [req_pc EXCEPT ![r] = "done"]
    /\ UNCHANGED <<now, build_count, storeVars, opVars, sweepVars, documents, req_doc,
                   load_calls, build_calls, save_calls, req_calls, schedVars>>
    /\ UNCHANGED <<endpointVars, chunkVars>>

\* as ReqBuild, without line 93: the index just built answers and is not saved
ReqBuild_NoSave(r) ==
    /\ req_pc[r] = "loading"
    /\ op_pc[r] = "returned"
    /\ op_result[r] = NoIndex
    /\ build_count < MaxBuilds
    /\ build_count' = build_count + 1
    /\ build_calls' = [build_calls EXCEPT ![req_doc[r]] = @ + 1]
    /\ req_calls' = [req_calls EXCEPT ![r].build = @ + 1]
    /\ req_index' = [req_index EXCEPT ![r] = [doc |-> req_doc[r], build |-> build_count + 1]]
    /\ req_answer' = [req_answer EXCEPT ![r] = Answer(req_doc[r])]
    /\ req_pc' = [req_pc EXCEPT ![r] = "done"]
    /\ UNCHANGED <<now, storeVars, opVars, sweepVars, documents, req_doc,
                   load_calls, save_calls, schedVars>>
    /\ UNCHANGED <<endpointVars, chunkVars>>

\* lines 89-93: load_faiss_index returned None: FAISS.from_documents builds the
\* index of the chunks and save_faiss_index is called with it
ReqBuild(r) ==
    /\ req_pc[r] = "loading"
    /\ op_pc[r] = "returned"
    /\ op_result[r] = NoIndex
    /\ build_count < MaxBuilds
    /\ build_count' = build_count + 1
    /\ build_calls' = [build_calls EXCEPT ![req_doc[r]] = @ + 1]
    /\ save_calls' = [save_calls EXCEPT ![req_doc[r]] = @ + 1]
    /\ req_calls' = [req_calls EXCEPT ![r].build = @ + 1, ![r].save = @ + 1]
    /\ req_index' = [req_index EXCEPT ![r] = [doc |-> req_doc[r], build |-> build_count + 1]]
    /\ CallSave(r, req_doc[r], [doc |-> req_doc[r], build |-> build_count + 1])
    /\ req_pc' = [req_pc EXCEPT ![r] = "saving"]
    /\ UNCHANGED <<now, storeVars, sweepVars, documents, req_doc, req_answer,
                   load_calls, schedVars>>
    /\ UNCHANGED <<endpointVars, chunkVars>>

\* as ReqBuildRaised, with the index of the chunks embedded so far saved
ReqBuildRaised_SavesPartial(r) ==
    /\ req_pc[r] = "loading"
    /\ op_pc[r] = "returned"
    /\ op_result[r] = NoIndex
    /\ build_calls' = [build_calls EXCEPT ![req_doc[r]] = @ + 1]
    /\ req_calls' = [req_calls EXCEPT ![r].build = @ + 1]
    /\ req_pc' = [req_pc EXCEPT ![r] = "failed"]
    /\ dir_exists' = TRUE
    /\ index_files' = [index_files EXCEPT ![req_doc[r]] = write_index(@, [doc |-> req_doc[r], build |-> MaxBuilds + 1])]
    /\ UNCHANGED <<now, build_count, metadata_exists, metadata_file, metadata_truncated,
                   opVars, sweepVars, documents, req_doc,
                   req_index, req_answer, load_calls, save_calls, schedVars>>
    /\ UNCHANGED <<endpointVars, chunkVars>>

\* lines 90-92: FAISS.from_documents raises (the embedding model fails): the error
\* leaves generate_answer_by_id and nothing is saved
ReqBuildRaised(r) ==
    /\ req_pc[r] = "loading"
    /\ op_pc[r] = "returned"
    /\ op_result[r] = NoIndex
    /\ build_calls' = [build_calls EXCEPT ![req_doc[r]] = @ + 1]
    /\ req_calls' = [req_calls EXCEPT ![r].build = @ + 1]
    /\ req_pc' = [req_pc EXCEPT ![r] = "failed"]
    /\ UNCHANGED <<now, build_count, storeVars, opVars, sweepVars, documents, req_doc,
                   req_index, req_answer, load_calls, save_calls, schedVars>>
    /\ UNCHANGED <<endpointVars, chunkVars>>

\* lines 93-103: save_faiss_index returned; the index just built answers
ReqSaved(r) ==
    /\ req_pc[r] = "saving"
    /\ op_pc[r] = "returned"
    /\ req_answer' = [req_answer EXCEPT ![r] = Answer(req_doc[r])]
    /\ req_pc' = [req_pc EXCEPT ![r] = "done"]
    /\ UNCHANGED <<now, build_count, storeVars, opVars, sweepVars, documents, req_doc,
                   req_index, load_calls, build_calls, save_calls, req_calls, schedVars>>
    /\ UNCHANGED <<endpointVars, chunkVars>>

\* SpecApp: the service from its construction on.  The steps of cleanup_job are
\* those of SweepStep; no behaviour of SpecApp reaches them, the job being paused.
AppIngest == \E d \in Docs : Ingest(d)
AppReqArrive == \E r \in Requests, d \in Docs : ReqArrive(r, d)
AppReqFetched == \E r \in Requests : ReqFetched(r)
AppReqStep == \E r \in Requests : OpStep(r)
AppReqSavePklRaised == \E r \in Requests : SavePklRaised(r)
AppReqSaveRaised == \E r \in Requests : ReqSaveRaised(r)
AppReqLoadRaised == \E r \in Requests : ReqLoadRaised(r)
AppReqLoaded == \E r \in Requests : ReqLoaded(r)
AppReqBuild == \E r \in Requests : ReqBuild(r)
AppReqBuildRaised == \E r \in Requests : ReqBuildRaised(r)
AppReqSaved == \E r \in Requests : ReqSaved(r)

NextApp ==
    \/ Startup
    \/ ProcessJobs
    \/ Tick
    \/ AppIngest
    \/ AppReqArrive
    \/ AppReqFetched
    \/ AppReqStep
    \/ AppReqSavePklRaised
    \/ AppReqSaveRaised
    \/ AppReqLoadRaised
    \/ AppReqLoaded
    \/ AppReqBuild
    \/ AppReqBuildRaised
    \/ AppReqSaved

SpecApp == Init /\ [][NextApp]_vars

\* ---------------------------------------------------------------------------
\* The /qa endpoint: ask_question validates the payload and then calls
\* generate_answer_by_id with its question and document_id.

\* the values of QARequest.question and QARequest.document_id: empty or not
Questions == {"", "q"}
DocumentIds == Docs \cup {""}

\* raise_http_exception(status_code, message): the HTTPException raised
raise_http_exception(status_code, message) ==
    [status_code |-> status_code, detail |-> [message |-> message]]

\* POST /api/v1/qa: ask_question is called with the payload
Receive(r, question, d) ==
    /\ app_pc = "serving"
    /\ req_pc[r] = "idle"
    /\ req_pc' = [req_pc EXCEPT ![r] = "validating"]
    /\ req_question' = [req_question EXCEPT ![r] = question]
    /\ req_doc' = [req_doc EXCEPT ![r] = d]
    /\ UNCHANGED <<now, build_count, storeVars, opVars, sweepVars, documents,
                   req_index, req_answer, load_calls, build_calls, save_calls,
                   req_calls, schedVars, req_error, chunkVars>>

\* as Validate, with the two checks of validate_qa_request in the other order
Validate_DocumentFirst(r) ==
    /\ req_pc[r] = "validating"
    /\ IF req_doc[r] = ""
       THEN /\ req_error' = [req_error EXCEPT ![r] =
                    raise_http_exception(400, "Document ID is required")]
            /\ req_pc' = [req_pc EXCEPT ![r] = "rejected"]
       ELSE IF req_question[r] = ""
       THEN /\ req_error' = [req_error EXCEPT ![r] =
                    raise_http_exception(400, "Question cannot be empty")]
            /\ req_pc' = [req_pc EXCEPT ![r] = "rejected"]
       ELSE /\ req_pc' = [req_pc EXCEPT ![r] = "fetching"]
            /\ UNCHANGED req_error
    /\ UNCHANGED <<now, build_count, storeVars, opVars, sweepVars, documents, req_doc,
                   req_index, req_answer, load_calls, build_calls, save_calls,
                   req_calls, schedVars, req_question, chunkVars>>

\* ask_question, lines 34-35: validate_qa_request(payload) raises for an empty
\* question (line 53), then for an empty document_id (line 56); when it returns,
\* generate_answer_by_id is called and reaches session.execute
Validate(r) ==
    /\ req_pc[r] = "validating"
    /\ IF req_question[r] = ""
       THEN /\ req_error' = [req_error EXCEPT ![r] =
                    raise_http_exception(400, "Question cannot be empty")]
            /\ req_pc' = [req_pc EXCEPT ![r] = "rejected"]
       ELSE IF req_doc[r] = ""
       THEN /\ req_error' = [req_error EXCEPT ![r] =
                    raise_http_exception(400, "Document ID is required")]
            /\ req_pc' = [req_pc EXCEPT ![r] = "rejected"]
       ELSE /\ req_pc' = [req_pc EXCEPT ![r] = "fetching"]
            /\ UNCHANGED req_error
    /\ UNCHANGED <<now, build_count, storeVars, opVars, sweepVars, documents, req_doc,
                   req_index, req_answer, load_calls, build_calls, save_calls,
                   req_calls, schedVars, req_question, chunkVars>>

\* generate_answer_by_id(question, d) called by a caller other than ask_question:
\* lines 61-63 check nothing and reach session.execute
DirectCall(r, question, d) ==
    /\ app_pc = "serving"
    /\ req_pc[r] = "idle"
    /\ req_pc' = [req_pc EXCEPT ![r] = "fetching"]
    /\ req_question' = [req_question EXCEPT ![r] = question]
    /\ req_doc' = [req_doc EXCEPT ![r] = d]
    /\ UNCHANGED <<now, build_count, storeVars, opVars, sweepVars, documents,
                   req_index, req_answer, load_calls, build_calls, save_calls,
                   req_calls, schedVars, req_error, chunkVars>>

\* SpecQa: the endpoint and direct callers of generate_answer_by_id at one
\* instant, with collaborators that do not fail.
QaReceive == \E r \in Requests, question \in Questions, d \in DocumentIds :
                Receive(r, question, d)
QaValidate == \E r \in Requests : Validate(r)
QaDirectCall == \E r \in Requests, question \in Questions, d \in DocumentIds :
                   DirectCall(r, question, d)

NextQa ==
    \/ Startup
    \/ AppIngest
    \/ QaReceive
    \/ QaValidate
    \/ QaDirectCall
    \/ AppReqFetched
    \/ AppReqStep
    \/ AppReqLoaded
    \/ AppReqBuild
    \/ AppReqSaved

SpecQa == Init /\ [][NextQa]_vars

\* ---------------------------------------------------------------------------
\* The chunker: lines 71-81 of generate_answer_by_id.  A string is the sequence
\* of its parts: a sentence, [text, len], is one part, and so is the " " that
\* join puts between two sentences.

\* len(sentence) of the sentences the model chunks: short, half a chunk, and
\* longer than a chunk
SentenceLens == {1, MaxChunkChars \div 2, MaxChunkChars + 1}
\* line 71: sentences = [sent.text.strip() for sent in doc_nlp.sents], the i-th
\* sentence of the document having the text i
SentencesOfLens(lens) == [i \in 1 .. Len(lens) |-> [text |-> i, len |-> lens[i]]]
Documents == {SentencesOfLens(lens) :
                 lens \in UNION {[1 .. n -> SentenceLens] : n \in 0 .. MaxSentences}}

\* the separator of " ".join
Space == [text |-> 0, len |-> 1]
RECURSIVE join(_)
\* " ".join(chunk)
join(c) ==
    IF c = <<>> THEN <<>>
    ELSE IF Len(c) = 1 THEN c
    ELSE <<c[1], Space>> \o join(Tail(c))
RECURSIVE strlen(_)
\* len(s) of a string
strlen(str) == IF str = <<>> THEN 0 ELSE str[1].len + strlen(Tail(str))

\* as ChunkSentence, with the flush decided on the accumulated length alone
ChunkSentence_TestAfter ==
    /\ chunk_pc = "loop"
    /\ sentence_i <= Len(sentences)
    /\ LET sentence == sentences[sentence_i]
       IN  IF length > MaxChunkChars
           THEN /\ chunks' = Append(chunks, join(chunk))
                /\ chunk' = <<sentence>>
                /\ length' = sentence.len
           ELSE /\ chunk' = Append(chunk, sentence)
                /\ length' = length + sentence.len
                /\ UNCHANGED chunks
    /\ sentence_i' = sentence_i + 1
    /\ UNCHANGED <<now, build_count, storeVars, opVars, sweepVars, qaVars, schedVars,
                   endpointVars, sentences, chunk_pc>>

\* lines 74-79, one iteration of the loop: when the sentence would take the
\* accumulated length over 1600 the chunk so far is joined and appended, whatever
\* it holds, and a new one started; the sentence then joins the current chunk
ChunkSentence ==
    /\ chunk_pc = "loop"
    /\ sentence_i <= Len(sentences)
    /\ LET sentence == sentences[sentence_i]
       IN  IF length + sentence.len > MaxChunkChars
           THEN /\ chunks' = Append(chunks, join(chunk))
                /\ chunk' = <<sentence>>
                /\ length' = sentence.len
           ELSE /\ chunk' = Append(chunk, sentence)
                /\ length' = length + sentence.len
                /\ UNCHANGED chunks
    /\ sentence_i' = sentence_i + 1
    /\ UNCHANGED <<now, build_count, storeVars, opVars, sweepVars, qaVars, schedVars,
                   endpointVars, sentences, chunk_pc>>

\* as ChunkEnd, without lines 80-81
ChunkEnd_DropsLast ==
    /\ chunk_pc = "loop"
    /\ sentence_i > Len(sentences)
    /\ chunk_pc' = "done"
    /\ UNCHANGED <<now, build_count, storeVars, opVars, sweepVars, qaVars, schedVars,
                   endpointVars, sentences, sentence_i, chunks, chunk, length>>

\* lines 80-81, after the loop: a non-empty last chunk is joined and appended
ChunkEnd ==
    /\ chunk_pc = "loop"
    /\ sentence_i > Len(sentences)
    /\ chunks' = IF chunk # <<>> THEN Append(chunks, join(chunk)) ELSE chunks
    /\ chunk_pc' = "done"
    /\ UNCHANGED <<now, build_count, storeVars, opVars, sweepVars, qaVars, schedVars,
                   endpointVars, sentences, sentence_i, chunk, length>>

\* SpecChunk: the chunking loop run on every document of up to MaxSentences
\* sentences; line 73 has initialised chunks, chunk and length
InitChunk ==
    /\ InitService
    /\ sentences \in Documents
    /\ sentence_i = 1
    /\ chunks = <<>> /\ chunk = <<>> /\ length = 0
    /\ chunk_pc = "loop"

NextChunk ==
    \/ ChunkSentence
    \/ ChunkEnd

SpecChunk == InitChunk /\ [][NextChunk]_vars

\* ===========================================================================
\* The claims
\* ===========================================================================
HasEntry(d) == d \in DOMAIN load_metadata
HasFile(d) == index_files[d] # NoFile
Consistent == \A d \in Docs : HasEntry(d) <=> HasFile(d)
Threshold == timedelta(INACTIVITY_THRESHOLD_HOURS)
Age(t, info) == t - fromisoformat(info.last_access)
\* the step in which a clean_old_indexes call ends, by return or by raise
SweepEnds ==
    /\ sweep_pc \in {"read", "remove", "write", "dump"}
    /\ sweep_pc' \in {"returned", "raised"}

\* C1: under SpecSeq (complete, non-interleaved save_faiss_index, load_faiss_index
\* and clean_old_indexes calls from the empty store), in every state between two
\* operations the metadata map has an entry for d iff the index file of d exists.
C1_EntryIffFile == (OpIdle(Caller) /\ SweepIdle) => Consistent

\* C1 witness: all three operations have completed, one document has its file
\* and its entry, the other has neither.
C1_Witness ==
    /\ op_pc[Caller] = "returned"
    /\ sweep_pc = "returned"
    /\ \E d \in Docs : HasFile(d) /\ HasEntry(d)
    /\ \E d \in Docs : ~HasFile(d) /\ ~HasEntry(d)

\* C2: under SpecConc (a sweep interleaved with request-path saves and loads),
\* once every started operation has completed, no index file exists without a
\* metadata entry and no metadata entry exists without an index file.
C2_ConsistentAfterInterleaving ==
    (op_pc[Caller] \in {"returned", "raised"} /\ sweep_pc \in {"returned", "raised"})
        => /\ \A d \in Docs : HasFile(d) => HasEntry(d)
           /\ \A d \in Docs : HasEntry(d) => HasFile(d)

\* C4: a sweep run at time now removes the entry and the index file of every
\* document whose now - last_access is greater than the threshold, and retains
\* the entry, with its timestamp, and the file of every other document.
C4_SweepEvictsOld ==
    [][SweepEnds =>
        \A d \in DOMAIN sweep_metadata :
            IF Age(sweep_now, sweep_metadata[d]) > Threshold
            THEN ~HasEntry(d)' /\ ~HasFile(d)'
            ELSE /\ HasEntry(d)'
                 /\ load_metadata'[d] = sweep_metadata[d]
                 /\ HasFile(d)' = HasFile(d)]_vars

\* C5: the eviction test is strict: an entry whose age is exactly the threshold
\* is retained by the sweep, an entry one time unit older is evicted.
C5_StrictBoundary ==
    [][SweepEnds =>
        \A d \in DOMAIN sweep_metadata :
            /\ Age(sweep_now, sweep_metadata[d]) = Threshold
                 => HasEntry(d)' /\ HasFile(d)' = HasFile(d)
            /\ Age(sweep_now, sweep_metadata[d]) = Threshold + 1
                 => ~HasEntry(d)' /\ ~HasFile(d)']_vars

\* no load or save of d is in progress
Untouched(d) == OpIdle(Caller) \/ op_doc[Caller] # d
\* d's last recorded access is older than the threshold, or none is recorded
EntryOld(d) == HasEntry(d) => Age(now, load_metadata[d]) > Threshold

\* C7: every persisted index file whose document is never loaded or saved again
\* is eventually deleted by the eviction job, time advancing and the job being
\* run again and again (SpecSweeps).  Stated for the files whose recorded access,
\* if there is one, is already older than the threshold, so that the bounded
\* clock does not keep a file young.
C7_IdleIndexEventuallyDeleted ==
    \A d \in Docs :
        []((HasFile(d) /\ EntryOld(d) /\ []Untouched(d)) => <>(~HasFile(d)))

\* the requests made for document d
ReqsOf(d) == {r \in Requests : req_doc[r] = d}
\* each of them has returned an answer drawn from an index
AllAnswered(d) ==
    /\ ReqsOf(d) # {}
    /\ \A r \in ReqsOf(d) : req_pc[r] = "done" /\ req_index[r] # NoIndex

\* C3: under SpecApp, concurrent first-time QA requests for one document with no
\* persisted index: at no time are two builds of that document in flight, and
\* once every request for it has answered from an index there has been exactly
\* one build and one save_faiss_index call for it, and all of them answered
\* from the same index.
C3_OneBuildPerDocument ==
    \A d \in Docs :
        /\ Cardinality({r \in ReqsOf(d) : req_pc[r] = "saving"}) <= 1
        /\ AllAnswered(d) =>
              /\ build_calls[d] = 1
              /\ save_calls[d] = 1
              /\ \A r, q \in ReqsOf(d) : req_index[r] = req_index[q]

\* C3 witness: every request asks for the same document, which has no persisted
\* index; one of them has built the index (the only build) and is about to save
\* it while all the others are waiting at their await.
C3_Witness ==
    \E d \in Docs, r \in Requests :
        /\ ReqsOf(d) = Requests
        /\ ~HasFile(d)
        /\ req_pc[r] = "saving"
        /\ op_pc[r] = "save_file"
        /\ \A q \in Requests \ {r} : req_pc[q] = "fetching"
        /\ build_calls[d] = 1

\* the outcome of that race: every request has answered, from one build and one save
C3_AllAnsweredFromOneBuild ==
    \E d \in Docs :
        /\ ReqsOf(d) = Requests
        /\ AllAnswered(d)
        /\ load_calls[d] = NumRequests
        /\ build_calls[d] = 1
        /\ save_calls[d] = 1

\* C6: after startup the eviction job is triggered on the configured interval:
\* once the scheduler runs, the first interval has elapsed and the scheduler has
\* handled every wakeup that was due, cleanup_job has been run.
C6_JobRunsAfterInterval ==
    (/\ scheduler_running
     /\ \E j \in scheduler_jobs : now >= j.first_fire
     /\ (scheduler_wakeup = None \/ scheduler_wakeup > now))
        => job_runs > 0

\* C10: a QA request for a document id absent from the document table returns
\* the answer "No document found with id <id>" and leaves the index files, the
\* metadata, and the load, build and save counts as they were.
C10_AbsentDocumentLeavesStore ==
    [][\A r \in Requests :
          (req_pc[r] = "fetching" /\ req_pc'[r] # "fetching" /\ req_doc[r] \notin documents)
              => /\ req_pc'[r] = "done"
                 /\ req_answer'[r] = NoDocumentFound(req_doc[r])
                 /\ req_index'[r] = NoIndex
                 /\ UNCHANGED <<storeVars, opVars, build_count,
                                load_calls, build_calls, save_calls>>]_vars

\* C10 witness: a request was answered "No document found" while the store holds
\* the index and the entry of another document.
C10_Witness ==
    \E r \in Requests :
        /\ req_pc[r] = "done"
        /\ req_answer[r] = NoDocumentFound(req_doc[r])
        /\ req_doc[r] \notin documents
        /\ \E d \in Docs : HasFile(d) /\ HasEntry(d)

\* the calls a request has made when it answers from a loaded index, and from a
\* built one
CallsOfHit == [load |-> 1, build |-> 0, save |-> 0]
CallsOfMiss == [load |-> 1, build |-> 1, save |-> 1]

\* C11: a request for an existing document calls load_faiss_index once.  When the
\* call returns an index, the request answers from that index, with no build, no
\* save and the store as it was; when it returns None, the request builds one
\* index and calls save_faiss_index once with it under the same document id, and
\* answers only once that index is in the store; a request that has answered
\* makes no further call.
C11_LoadOnceThenUseOrBuild ==
    [][\A r \in Requests :
          /\ (req_pc[r] = "loading" /\ op_pc[r] = "returned" /\ req_pc'[r] # "loading")
                => /\ req_calls[r] = [load |-> 1, build |-> 0, save |-> 0]
                   /\ IF op_result[r] # NoIndex
                      THEN /\ req_pc'[r] = "done"
                           /\ req_index'[r] = op_result[r]
                           /\ req_calls'[r] = CallsOfHit
                           /\ UNCHANGED <<storeVars, build_count>>
                      ELSE /\ req_pc'[r] \in {"saving", "failed"}
                           /\ req_calls'[r].build = 1
                           /\ req_pc'[r] = "saving"
                                 => /\ req_calls'[r] = CallsOfMiss
                                    /\ op_pc'[r] = "save_file"
                                    /\ op_doc'[r] = req_doc[r]
                                    /\ op_index'[r] = req_index'[r]
                                    /\ req_index'[r].doc = req_doc[r]
          /\ (req_pc[r] = "saving" /\ req_pc'[r] = "done")
                => /\ index_files[req_doc[r]] = save_local(req_index[r])
                   /\ req_calls'[r] = CallsOfMiss
          /\ req_pc[r] = "done"
                => req_pc'[r] = "done" /\ req_calls'[r] = req_calls[r]]_vars

\* C11 witness: for one document, a request has answered from the index it built
\* and saved, and another from the index it loaded.
C11_Witness ==
    \E d \in Docs, r, q \in Requests :
        /\ d \in documents
        /\ req_doc[r] = d /\ req_pc[r] = "done" /\ req_calls[r] = CallsOfMiss
        /\ req_doc[q] = d /\ req_pc[q] = "done" /\ req_calls[q] = CallsOfHit
        /\ req_index[q] = req_index[r]
        /\ index_files[d] = save_local(req_index[r])

\* request r has persisted the access time of its document and not answered yet
TouchedBy(r) ==
    \/ req_pc[r] = "loading" /\ op_pc[r] = "load_local"
    \/ req_pc[r] = "loading" /\ op_pc[r] = "returned" /\ op_result[r] # NoIndex
    \/ req_pc[r] = "saving" /\ op_pc[r] = "returned"

\* C12: load_faiss_index and save_faiss_index stamp the entry of their document
\* with the current time (read back by fromisoformat) and persist it, creating
\* the entry when there is none; from then until the request answers the entry
\* stays as written, so a request that answers from an index has stamped its
\* document during the request and the metadata holds that entry.
C12_AccessStamped ==
    [][/\ \A c \in Callers :
            /\ (op_pc[c] \in {"save_open", "load_open"} /\ op_pc'[c] # op_pc[c])
                  => /\ op_doc[c] \in DOMAIN op_metadata'[c]
                     /\ fromisoformat(op_metadata'[c][op_doc[c]].last_access) = now
            /\ (op_pc[c] \in {"save_write", "load_write"} /\ op_pc'[c] # op_pc[c])
                  => /\ HasEntry(op_doc[c])'
                     /\ load_metadata' = op_metadata[c]
                     /\ op_pc'[c] \in {"returned", "load_local"}
       /\ \A r \in Requests :
            /\ TouchedBy(r)
                  => /\ HasEntry(req_doc[r])'
                     /\ load_metadata'[req_doc[r]] = load_metadata[req_doc[r]]
            /\ (req_pc[r] # "done" /\ req_pc'[r] = "done"
                   /\ req_answer'[r] = Answer(req_doc[r]))
                  => /\ TouchedBy(r)
                     /\ fromisoformat(load_metadata'[req_doc[r]].last_access) <= now]_vars

\* C12 witness: a request has just answered from an index it loaded, at a time
\* later than 0, and the entry of its document carries the current time.
C12_Witness ==
    \E r \in Requests :
        /\ req_pc[r] = "done"
        /\ req_calls[r] = CallsOfHit
        /\ now > 0
        /\ HasEntry(req_doc[r])
        /\ load_metadata[req_doc[r]] = [last_access |-> isoformat(now)]

\* the sweep is about to run its loop, and the loop goes to os.remove for d
Evicting(d) ==
    /\ sweep_pc = "remove"
    /\ d \in SweepOld(sweep_now, sweep_metadata)
    /\ path_exists(d)
\* caller c is inside load_faiss_index, past the check of line 118
LoadPastCheck(c) == op_pc[c] \in {"load_read", "load_open", "load_write", "load_local"}

PartiallyWritten(d) == \E c \in Callers : op_pc[c] = "save_pkl" /\ op_doc[c] = d

\* C14: under SpecConc, no operation that interleaves with a save_faiss_index(d)
\* looks at d's index while it is partially written: neither the check of line
\* 118 or the read of line 125 of a load, nor the check of line 153 of a sweep.
C14_NoPartialIndexObserved ==
    [][/\ \A c \in Callers :
            (op_pc[c] \in {"load_exists", "load_local"} /\ op_pc'[c] # op_pc[c])
                => ~PartiallyWritten(op_doc[c])
       /\ (sweep_pc = "remove" /\ sweep_pc' # "remove")
            => \A d \in SweepOld(sweep_now, sweep_metadata) : ~PartiallyWritten(d)]_vars

\* C15: load_faiss_index(d) with no index of d in the store returns None at its
\* first step: it does not raise, and the index files, the metadata file and the
\* index directory are left as they were.
C15_LoadAbsentReturnsNone ==
    [][\A c \in Callers :
          (op_pc[c] = "load_exists" /\ ~HasFile(op_doc[c]) /\ op_pc'[c] # "load_exists")
              => /\ op_pc'[c] = "returned"
                 /\ op_result'[c] = NoIndex
                 /\ UNCHANGED storeVars]_vars

\* C15 witness: a load of a document with no index has returned None while the
\* store holds the index and the entry of another document.
C15_Witness ==
    /\ op_pc[Caller] = "returned"
    /\ op_index[Caller] = NoIndex
    /\ op_result[Caller] = NoIndex
    /\ ~HasFile(op_doc[Caller]) /\ ~HasEntry(op_doc[Caller])
    /\ \E d \in Docs : HasFile(d) /\ HasEntry(d)

\* d's index folder exists and cannot be deserialized: it lacks index.pkl, and no
\* save is on its way to write it
Unreadable(d) == HasFile(d) /\ index_files[d].pkl = NoDoc /\ ~PartiallyWritten(d)

\* C16: under SpecApp, when the index of a request's document exists and cannot
\* be deserialized, load_faiss_index does not return None for it but raises, the
\* request fails with no build and no save, and stays failed; the unreadable
\* index is never written again.
C16_UnreadableIndexFailsRequest ==
    [][/\ \A r \in Requests :
            /\ (op_pc[r] = "load_exists" /\ Unreadable(op_doc[r])
                   /\ op_pc'[r] # "load_exists")
                  => op_pc'[r] = "load_read"
            /\ (op_pc[r] = "load_local" /\ Unreadable(op_doc[r])
                   /\ op_pc'[r] # "load_local")
                  => op_pc'[r] = "raised" /\ op_result'[r] = NoIndex
            /\ (req_pc[r] = "loading" /\ op_pc[r] = "raised")
                  => /\ req_pc'[r] \in {"loading", "failed"}
                     /\ req_calls'[r] = req_calls[r]
                     /\ UNCHANGED <<index_files, build_count, build_calls, save_calls>>
            /\ req_pc[r] = "failed"
                  => /\ req_pc'[r] = "failed"
                     /\ req_calls'[r] = req_calls[r]
                     /\ req_answer'[r] = req_answer[r]
       /\ \A d \in Docs :
            Unreadable(d) => index_files'[d] = index_files[d]]_vars

\* C16 witness: a request has failed on its one call, load_faiss_index, which
\* raised on the unreadable index of its document; the index is as it was left.
C16_Witness ==
    \E r \in Requests :
        /\ req_pc[r] = "failed"
        /\ req_calls[r] = CallsOfHit
        /\ op_pc[r] = "raised"
        /\ Unreadable(req_doc[r])
        /\ req_answer[r] # Answer(req_doc[r])

\* the step in which a clean_old_indexes call returns
SweepReturns == sweep_pc = "dump" /\ sweep_pc' = "returned"
\* the identifiers that call evicted: in its snapshot, and after it with neither
\* entry nor index file
Evicted ==
    {d \in DOMAIN sweep_metadata : d \notin DOMAIN load_metadata' /\ ~HasFile(d)'}

\* C17: the value clean_old_indexes returns names exactly the identifiers the
\* run evicted.
C17_SweepReturnsEvicted ==
    [][SweepReturns => DOMAIN sweep_result' = Evicted]_vars

\* C17 as amended: clean_old_indexes returns the map it has just persisted, which
\* holds the entries the run retained and no identifier it evicted.
C17_SweepReturnsRetained ==
    [][SweepReturns =>
          /\ sweep_result' = load_metadata'
          /\ DOMAIN sweep_result' =
                (DOMAIN sweep_metadata) \ SweepOld(sweep_now, sweep_metadata)
          /\ DOMAIN sweep_result' \cap Evicted = {}]_vars

\* C17 witness: a call has returned a map with an entry in it, the persisted one.
C17_Witness ==
    /\ sweep_pc = "returned"
    /\ sweep_result # EmptyMap
    /\ sweep_result = load_metadata
    /\ \A d \in DOMAIN sweep_result : HasFile(d)

\* C18: under SpecSeq, a clean_old_indexes run writes the metadata file only at
\* its end, after the loop; the map it persists and returns is its input map
\* restricted to the entries that are not old; and a run whose input map is
\* empty removes nothing, does not raise, and persists and returns the empty map.
C18_SweepPersistsRetained ==
    [][/\ (sweep_pc \in {"read", "remove"})
            => UNCHANGED <<metadata_exists, metadata_file, metadata_truncated>>
       /\ SweepReturns
            => /\ sweep_result' = Restrict(sweep_metadata,
                     {d \in DOMAIN sweep_metadata :
                         Age(sweep_now, sweep_metadata[d]) <= Threshold})
               /\ load_metadata' = sweep_result'
       /\ (~SweepIdle /\ sweep_pc # "read" /\ sweep_metadata = EmptyMap)
            => /\ sweep_pc' # "raised"
               /\ index_files' = index_files
               /\ SweepReturns => sweep_result' = EmptyMap /\ load_metadata' = EmptyMap]_vars

\* the metadata file as it is on disk
metadataVars == <<metadata_exists, metadata_file, metadata_truncated>>

\* C20: under SpecConc, a clean_old_indexes run that meets an unreadable metadata
\* file at line 146 ends there with that error, having removed no index and
\* written no metadata; a run whose os.remove fails at line 154 ends there with
\* that error, having written no metadata; and a run that has raised does
\* nothing more.
C20_FailedSweepWritesNothing ==
    [][/\ (sweep_pc = "read" /\ sweep_pc' # "read"
              /\ metadata_exists /\ metadata_truncated)
            => /\ sweep_pc' = "raised"
               /\ sweep_error' = "JSONDecodeError"
               /\ UNCHANGED <<metadataVars, index_files>>
       /\ (sweep_pc = "remove" /\ sweep_pc' # "remove"
              /\ \E d \in SweepOld(sweep_now, sweep_metadata) :
                    HasFile(d) /\ os_remove_raises(d))
            => /\ sweep_pc' = "raised"
               /\ sweep_error' = "IsADirectoryError"
               /\ UNCHANGED metadataVars
       /\ sweep_pc = "raised"
            => \/ UNCHANGED sweepVars
               \/ sweep_pc' = "read" /\ UNCHANGED <<metadataVars, index_files>>]_vars

\* C20 witness: a run has ended with the error of reading the metadata file,
\* which a save or load had open for writing, while the store holds an index.
C20_Witness ==
    /\ sweep_pc = "raised"
    /\ sweep_error = "JSONDecodeError"
    /\ metadata_truncated
    /\ \E d \in Docs : HasFile(d)

\* request r has left generate_answer_by_id by the error of FAISS.from_documents
BuildFailed(r) ==
    /\ req_pc[r] = "failed"
    /\ req_calls[r] = [load |-> 1, build |-> 1, save |-> 0]

\* C22: when FAISS.from_documents fails for a document that has no persisted
\* index, the request ends with that error and the store is left as it was: the
\* document has no index folder and no metadata entry, and the request has made
\* no save call and holds no index.  As long as no request has called
\* save_faiss_index for the document since, a request whose load_faiss_index
\* returns gets None, so it builds the index again from the chunks.
C22_FailedBuildPersistsNothing ==
    [][/\ \A r \in Requests :
             (/\ req_pc[r] = "loading" /\ op_pc[r] = "returned"
              /\ op_result[r] = NoIndex /\ req_pc'[r] = "failed")
                => /\ UNCHANGED <<storeVars, build_count>>
                   /\ ~HasFile(req_doc[r])' /\ ~HasEntry(req_doc[r])'
                   /\ BuildFailed(r)'
                   /\ req_index'[r] = NoIndex
       /\ \A r, q \in Requests :
             (/\ BuildFailed(r)' /\ q # r /\ req_doc'[q] = req_doc'[r]
              /\ save_calls'[req_doc'[r]] = 0)
                => /\ ~HasFile(req_doc[r])' /\ ~HasEntry(req_doc[r])'
                   /\ (req_pc'[q] = "loading" /\ op_pc'[q] = "returned")
                         => op_result'[q] = NoIndex]_vars

\* C22 witness: a request for a document failed in the build, and a later request
\* for the same document has built the index and saved it.
C22_Witness ==
    \E r, q \in Requests :
        /\ BuildFailed(r) /\ q # r /\ req_doc[q] = req_doc[r]
        /\ req_pc[q] = "done" /\ req_calls[q] = CallsOfMiss
        /\ build_calls[req_doc[r]] = 2
        /\ index_files[req_doc[r]] = save_local(req_index[q])
        /\ HasEntry(req_doc[r])

\* the request made no call of the store API
NoCalls == [load |-> 0, build |-> 0, save |-> 0]

\* C26: validate_qa_request lets a request with a non-empty question and a
\* non-empty document_id through to generate_answer_by_id with no error; it
\* rejects an empty question with HTTP 400 "Question cannot be empty", also when
\* the document_id is empty too (the question is checked first), and an empty
\* document_id with HTTP 400 "Document ID is required".  A rejection changes
\* nothing in the store, and a rejected request never fetches a document and
\* never calls load, build or save.
C26_ValidationRejectsBeforeAnyWork ==
    [][\A r \in Requests :
          /\ (req_pc[r] = "validating" /\ req_pc'[r] # "validating")
                => /\ (req_question[r] # "" /\ req_doc[r] # "")
                        => req_pc'[r] = "fetching" /\ req_error'[r] = NoError
                   /\ req_question[r] = ""
                        => /\ req_pc'[r] = "rejected"
                           /\ req_error'[r] =
                                 raise_http_exception(400, "Question cannot be empty")
                   /\ (req_question[r] # "" /\ req_doc[r] = "")
                        => /\ req_pc'[r] = "rejected"
                           /\ req_error'[r] =
                                 raise_http_exception(400, "Document ID is required")
                   /\ req_pc'[r] = "rejected"
                        => UNCHANGED <<storeVars, opVars, build_count, documents,
                                       load_calls, build_calls, save_calls, req_calls>>
          /\ req_pc[r] = "rejected"
                => /\ req_pc'[r] = "rejected"
                   /\ req_calls'[r] = NoCalls
                   /\ op_pc'[r] = "idle"
                   /\ req_answer'[r] = req_answer[r]]_vars

\* C26 witness: a request with neither question nor document_id was rejected for
\* its question, another with a question and no document_id for its document_id,
\* and neither made a call.
C26_Witness ==
    \E r, q \in Requests :
        /\ req_pc[r] = "rejected" /\ req_question[r] = "" /\ req_doc[r] = ""
        /\ req_error[r] = raise_http_exception(400, "Question cannot be empty")
        /\ req_pc[q] = "rejected" /\ req_question[q] = "q" /\ req_doc[q] = ""
        /\ req_error[q] = raise_http_exception(400, "Document ID is required")
        /\ req_calls[r] = NoCalls /\ req_calls[q] = NoCalls

\* C27: a call of generate_answer_by_id that has got as far as fetching the
\* document, or further, has a non-empty question and a non-empty document_id.
C27_OrchestratorValidates ==
    \A r \in Requests :
        req_pc[r] \in {"fetching", "loading", "saving", "done", "failed"}
            => req_question[r] # "" /\ req_doc[r] # ""

\* the sentences of a chunk string, in order
SentencesIn(str) == SelectSeq(str, LAMBDA part : part # Space)
RECURSIVE Flatten(_)
\* the sentences of a list of chunk strings, chunk by chunk
Flatten(chs) == IF chs = <<>> THEN <<>> ELSE SentencesIn(chs[1]) \o Flatten(Tail(chs))
Oversized(sentence) == sentence.len > MaxChunkChars

\* C23: the sentences of the emitted chunks, read chunk by chunk, are the input
\* sentences in their order, each once and whole: during the loop the emitted
\* chunks followed by the current chunk are the sentences read so far, and at the
\* end the emitted chunks are all of them, with at least one chunk when there is
\* at least one sentence.
C23_ChunksReconstructSentences ==
    /\ chunk_pc = "loop"
          => Flatten(chunks) \o chunk = SubSeq(sentences, 1, sentence_i - 1)
    /\ chunk_pc = "done"
          => /\ Flatten(chunks) = sentences
             /\ sentences # <<>> => chunks # <<>>

\* C23 witness: a document of MaxSentences sentences was chunked into several
\* chunks, the last of them the partial chunk left when the loop ended.
C23_Witness ==
    /\ chunk_pc = "done"
    /\ Len(sentences) = MaxSentences
    /\ Len(chunks) >= 2
    /\ chunks[Len(chunks)] = join(chunk)
    /\ Len(chunk) >= 2
    /\ length < MaxChunkChars

\* C24: every emitted chunk string of more than one sentence is at most
\* MaxChunkChars characters long.
C24_ChunkWithinThreshold ==
    chunk_pc = "done"
        => \A k \in DOMAIN chunks :
              Len(SentencesIn(chunks[k])) > 1 => strlen(chunks[k]) <= MaxChunkChars

\* C25: a sentence longer than MaxChunkChars is a chunk of its own wherever it
\* stands: the sentence before it ends the chunk before that chunk, and the
\* sentence after it begins the chunk after it.
C25_OversizedSentenceAlone ==
    chunk_pc = "done"
        => \A i \in DOMAIN sentences :
              Oversized(sentences[i])
                 => \E k \in DOMAIN chunks :
                       /\ chunks[k] = <<sentences[i]>>
                       /\ i > 1
                            => /\ k > 1
                               /\ SentencesIn(chunks[k - 1]) # <<>>
                               /\ chunks[k - 1][Len(chunks[k - 1])] = sentences[i - 1]
                       /\ i < Len(sentences)
                            => /\ k < Len(chunks)
                               /\ chunks[k + 1][1] = sentences[i + 1]

\* C25 witness: a chunked document whose first, third and fourth sentence are
\* oversized and whose second is not: an oversized sentence at the start, after a
\* short sentence, next to another oversized one, and at the end.
C25_Witness ==
    /\ chunk_pc = "done"
    /\ Len(sentences) = 4
    /\ Oversized(sentences[1]) /\ ~Oversized(sentences[2])
    /\ Oversized(sentences[3]) /\ Oversized(sentences[4])
    /\ \A i \in {1, 3, 4} : \E k \in DOMAIN chunks : chunks[k] = <<sentences[i]>>

\* C30: no emitted chunk is the empty string.
C30_NoEmptyChunk ==
    \A k \in DOMAIN chunks : chunks[k] # <<>>

\* C28: a sweep does not remove the index folder or the metadata entry of a
\* document whose persisted last access is, at that moment, within the inactivity
\* threshold: no step of the sweep removes such a folder, and when the sweep
\* opens the metadata file to rewrite it, every entry of the file that is not old
\* is among the entries it is about to write.
C28_SweepKeepsFreshDocuments ==
    [][\A d \in Docs :
          (/\ sweep_pc \in {"remove", "write"} /\ sweep_pc' # sweep_pc
           /\ ~load_metadata_raises
           /\ HasEntry(d) /\ ~IsOld(now, load_metadata[d]))
             => /\ index_files'[d] = index_files[d]
                /\ sweep_pc' = "dump" => d \in DOMAIN sweep_updated']_vars

\* C29: no call of clean_old_indexes ends by raising.
C29_SweepCompletes ==
    sweep_pc # "raised"

====
